---- MODULE Spec2Model ----
(***************************************************************************)
(* The `train` command of the ElasticDL client                             *)
(* (elasticdl/python/client/client.py): _train runs _build_docker_image    *)
(* (stage a build context, render the Dockerfile, stream the docker build, *)
(* optionally stream a push) and then _submit (build the master's argument *)
(* vector, check the volume options, default the master resource limit,    *)
(* call k8s create_master).                                                *)
(*                                                                         *)
(* Python values: an option that may be None is a sequence of length <= 1  *)
(* (<<>> is None, <<s>> is the string s); strings are TLA+ strings, and    *)
(* the strings the program takes apart are looked up as character          *)
(* sequences with Chars.                                                   *)
(***************************************************************************)
EXTENDS Naturals, Sequences, FiniteSets, TLC

VARIABLES
    opts,             \* the options as parse_known_args returned them (never written)
    args,             \* the args namespace (_submit assigns master_resource_limit)
    argv,             \* the unrecognised trailing arguments
    pc,               \* position of the single thread of control
    disk,             \* files and directories the run created that exist on disk
    dockerfile,       \* text written to the Dockerfile df (<<>>: nothing written)
    stdout,           \* what was written to standard output, in order
    build_log,        \* the build events pulled from client.build, in order
    push_log,         \* the push events pulled from client.push, in order
    build_calls,      \* number of calls of client.build
    push_calls,       \* number of calls of client.push
    build_ended,      \* the build generator was exhausted (the for loop ended)
    create_requests,  \* the keyword arguments of each create_master call
    exc               \* the exception that ended the run (<<>>: none)

vars == <<opts, args, argv, pc, disk, dockerfile, stdout, build_log, push_log,
          build_calls, push_calls, build_ended, create_requests, exc>>

\* Bounds of the model.
MaxBuildEvents == 3
MaxPushEvents == 2

----------------------------------------------------------------------------
\* Python values

None == <<>>
Some(s) == <<s>>

\* bool(x) of an optional string: None and "" are false.
Truthy(o) == o # None /\ o[1] # ""

\* The characters of the strings the program or the parser takes apart.
Chars(s) ==
    CASE s = "" -> <<>>
      [] s = "/model" -> <<"/", "m", "o", "d", "e", "l">>
      [] s = "/t/m" -> <<"/", "t", "/", "m">>
      [] s = "/t/m/" -> <<"/", "t", "/", "m", "/">>
      [] s = "/t/f.py" -> <<"/", "t", "/", "f", ".", "p", "y">>
      [] s = "/t/x" -> <<"/", "t", "/", "x">>
      [] s = "mnist" -> <<"m", "n", "i", "s", "t">>
      [] s = "cpu=0.1,memory=1024Mi" ->
            <<"c", "p", "u", "=", "0", ".", "1", ",",
              "m", "e", "m", "o", "r", "y", "=", "1", "0", "2", "4", "M", "i">>
      [] s = "cpu=1,memory=4096Mi" ->
            <<"c", "p", "u", "=", "1", ",",
              "m", "e", "m", "o", "r", "y", "=", "4", "0", "9", "6", "M", "i">>
      [] s = "cpu=2, memory=8192Mi" ->
            <<"c", "p", "u", "=", "2", ",", " ",
              "m", "e", "m", "o", "r", "y", "=", "8", "1", "9", "2", "M", "i">>
      [] s = "cpu=2,disk=1024Mi" ->
            <<"c", "p", "u", "=", "2", ",",
              "d", "i", "s", "k", "=", "1", "0", "2", "4", "M", "i">>
      [] s = "cpu" -> <<"c", "p", "u">>
      [] s = "gpu=1" -> <<"g", "p", "u", "=", "1">>

\* The string of a character sequence.
RECURSIVE Str(_)
Str(cs) == IF cs = <<>> THEN "" ELSE Head(cs) \o Str(Tail(cs))

----------------------------------------------------------------------------
\* os.path, on character sequences

\* p.rfind("/") + 1: the index after the last slash, counted from 0.
AfterLastSlash(cs) ==
    LET slashes == {i \in 1..Len(cs) : cs[i] = "/"}
    IN  IF slashes = {} THEN 0 ELSE CHOOSE i \in slashes : \A j \in slashes : j <= i

\* os.path.basename
Basename(cs) == SubSeq(cs, AfterLastSlash(cs) + 1, Len(cs))

\* os.path.join(a, b)
PathJoin(a, b) ==
    IF b # <<>> /\ b[1] = "/" THEN b
    ELSE IF a = <<>> \/ a[Len(a)] = "/" THEN a \o b
    ELSE a \o <<"/">> \o b

MODEL_ROOT_PATH == "/model"

\* _model_def_in_docker(model_def)
ModelDefInDocker(model_def) ==
    Str(PathJoin(Chars(MODEL_ROOT_PATH), Basename(Chars(model_def))))

----------------------------------------------------------------------------
\* The host file system the command runs on, and the files the run creates

HostDirs == {"/t/m", "/t/m/", "mnist"}
HostFiles == {"/t/f.py"}

\* os.path.exists in place of os.path.isdir: a single file passes.
IsDir_Exists(p) == p \in HostDirs \cup HostFiles

\* os.path.isdir(m_def)
IsDir(p) == p \in HostDirs

\* tempfile.TemporaryDirectory(): the staging directory ctx_dir.
CtxDir == [dir |-> "tmp", name |-> "ctx_dir"]
\* tempfile.NamedTemporaryFile(mode="w+", delete=False): the Dockerfile df, made in
\* the default temporary directory (no dir= argument), kept when it is closed.
DockerfilePath == [dir |-> "tmp", name |-> "df"]
\* An entry directly under ctx_dir.
InCtx(name) == [dir |-> "ctx_dir", name |-> name]

\* basename of base_dir, the framework tree two levels above client.py.
FrameworkBase == "elasticdl"

\* Leaving `with tempfile.TemporaryDirectory() as ctx_dir`: ctx_dir and all under it
\* are removed.
CleanupCtx(d) == {f \in d : f # CtxDir /\ f.dir # "ctx_dir"}

\* shutil.copytree(src, dst) raises FileExistsError when dst exists; dst is
\* os.path.join(ctx_dir, name), which is ctx_dir itself for an empty name.
CopyDestExists(d, name) == name = "" \/ InCtx(name) \in d

\* docker_template.format(...): which template, and what was substituted.
RenderTemplate(m_def, image_base) ==
    LET source_model_dir == Str(Basename(Chars(m_def)))
        target_model_dir ==
            Str(PathJoin(Chars(MODEL_ROOT_PATH), Basename(Chars(m_def))))
    IN  [template |-> IF Truthy(image_base) THEN "custom" ELSE "default",
         from |-> IF Truthy(image_base) THEN image_base[1]
                  ELSE "tensorflow/tensorflow:2.0.0b0-py3",
         copy_src |-> source_model_dir,
         copy_dst |-> target_model_dir,
         pythonpath |-> "/elasticdl:$" \o MODEL_ROOT_PATH]

\* An exception value.
Exception(type, msg) == <<[type |-> type, msg |-> msg]>>

----------------------------------------------------------------------------
\* The command line: what parse_known_args can hand to _train

ModelDefs == {"/t/m", "/t/m/", "mnist", "/t/f.py", "/t/x"}
OptionalVolume == {None, Some(""), Some("nfs1")}
OptionalMount == {None, Some(""), Some("/data")}
MasterRequests == {"cpu=0.1,memory=1024Mi", "cpu"}
MasterLimits == {None, Some(""), Some("cpu=2,disk=1024Mi")}
WorkerRequests == {"cpu=1,memory=4096Mi", "gpu=1"}
WorkerLimits == {"cpu=1,memory=4096Mi", "cpu=2, memory=8192Mi"}
ImageBases == {None, Some("python:3.6")}
Passthrough == {<<>>, <<"--num_epochs", "2">>}

Options ==
    [model_def : ModelDefs,
     push_image : BOOLEAN,
     image_name : {"foo:v1"},
     image_base : ImageBases,
     job_name : {"job1"},
     master_resource_request : MasterRequests,
     master_resource_limit : MasterLimits,
     worker_resource_request : WorkerRequests,
     worker_resource_limit : WorkerLimits,
     master_pod_priority : {None},
     volume_name : OptionalVolume,
     mount_path : OptionalMount,
     image_pull_policy : {"Always"},
     restart_policy : {"Never"},
     extra_pypi_index : {None},
     namespace : {"default"},
     tensorboard_log_dir : {""}]

Init ==
    /\ opts \in Options
    /\ args = opts
    /\ argv \in Passthrough
    /\ pc = "train"
    /\ disk = {}
    /\ dockerfile = <<>>
    /\ stdout = <<>>
    /\ build_log = <<>>
    /\ push_log = <<>>
    /\ build_calls = 0
    /\ push_calls = 0
    /\ build_ended = FALSE
    /\ create_requests = <<>>
    /\ exc = None

----------------------------------------------------------------------------
\* _build_docker_image

\* Lines 177-182: enter the TemporaryDirectory, copy the framework tree into it,
\* open the Dockerfile.
StageContext ==
    /\ pc = "train"
    /\ pc' = "staged"
    /\ disk' = disk \cup {CtxDir, InCtx(FrameworkBase), DockerfilePath}
    /\ UNCHANGED <<opts, args, argv, dockerfile, stdout, build_log, push_log,
                   build_calls, push_calls, build_ended, create_requests, exc>>

\* An exception leaves both with blocks: df is closed (and kept), ctx_dir removed.
RaiseInBuild(e) ==
    /\ pc' = "done"
    /\ exc' = e
    /\ disk' = CleanupCtx(disk)

\* Lines 183-200: copy the model directory and write the rendered template, or
\* raise for a model_def that is no directory.
RenderDockerfile ==
    /\ pc = "staged"
    /\ LET m_def == args.model_def
           name == Str(Basename(Chars(m_def)))
       IN  IF IsDir(m_def)
           THEN IF CopyDestExists(disk, name)
                THEN /\ RaiseInBuild(Exception("FileExistsError", name))
                     /\ UNCHANGED dockerfile
                ELSE /\ disk' = disk \cup {InCtx(name)}
                     /\ dockerfile' = Some(RenderTemplate(m_def, args.image_base))
                     /\ pc' = "build_call"
                     /\ UNCHANGED exc
           ELSE /\ RaiseInBuild(Exception("ValueError", "Invalid model def: " \o m_def))
                /\ UNCHANGED dockerfile
    /\ UNCHANGED <<opts, args, argv, stdout, build_log, push_log,
                   build_calls, push_calls, build_ended, create_requests>>

\* What the docker daemon can put on the build stream: a log line, a line with
\* neither key (a status or aux record), an error.
BuildEvents ==
    {[error |-> None, stream |-> Some("Step 1/3 : FROM base\n")],
     [error |-> None, stream |-> None],
     [error |-> Some("returned a non-zero code: 1"), stream |-> None]}

\* The error test looking at the wrong key: no event is taken for an error.
LineIsError_StreamKey(line) == line.stream # None /\ line.stream[1] = "error"

\* Line 210: "error" in line
LineIsError(line) == line.error # None

\* The push made unconditional.
ShouldPush_Always(a) == TRUE

\* Line 219: if push_image
ShouldPush(a) == a.push_image

\* Lines 201-209: print the banner and call client.build, which returns the
\* generator of decoded events.
BuildCall ==
    /\ pc = "build_call"
    /\ stdout' = Append(stdout, "===== Building Docker Image =====")
    /\ build_calls' = build_calls + 1
    /\ pc' = "building"
    /\ UNCHANGED <<opts, args, argv, disk, dockerfile, build_log, push_log,
                   push_calls, build_ended, create_requests, exc>>

\* Lines 201-209, client.build raising (the daemon refuses the request).
BuildCallRaises ==
    /\ pc = "build_call"
    /\ stdout' = Append(stdout, "===== Building Docker Image =====")
    /\ build_calls' = build_calls + 1
    /\ RaiseInBuild(Exception("APIError", "build"))
    /\ UNCHANGED <<opts, args, argv, dockerfile, build_log, push_log,
                   push_calls, build_ended, create_requests>>

\* Lines 203-217, one iteration of the loop over the build stream.
BuildYield ==
    /\ pc = "building"
    /\ Len(build_log) < MaxBuildEvents
    /\ \E line \in BuildEvents :
        /\ build_log' = Append(build_log, line)
        /\ IF LineIsError(line)
           THEN /\ RaiseInBuild(Exception("RuntimeError",
                        "Docker image build failure: " \o line.error[1]))
                /\ UNCHANGED stdout
           ELSE /\ stdout' = IF Truthy(line.stream)
                             THEN Append(stdout, line.stream[1])
                             ELSE stdout
                /\ UNCHANGED <<pc, exc, disk>>
    /\ UNCHANGED <<opts, args, argv, dockerfile, push_log,
                   build_calls, push_calls, build_ended, create_requests>>

\* Lines 203 and 217-219: the stream is exhausted, the with block is left (ctx_dir
\* removed), and push_image decides what follows.
BuildStreamEnds ==
    /\ pc = "building"
    /\ build_ended' = TRUE
    /\ disk' = CleanupCtx(disk)
    /\ pc' = IF ShouldPush(args) THEN "push_call" ELSE "submit"
    /\ UNCHANGED <<opts, args, argv, dockerfile, stdout, build_log, push_log,
                   build_calls, push_calls, create_requests, exc>>

\* What the daemon can put on the push stream: a status, an error status.
PushEvents ==
    {[status |-> Some("Pushed"), error |-> None],
     [status |-> None, error |-> Some("denied: requested access is denied")]}

\* print(line) of a decoded push event.
Repr(line) ==
    IF line.error # None
    THEN "{'error': '" \o line.error[1] \o "'}"
    ELSE "{'status': '" \o line.status[1] \o "'}"

\* Lines 219-221: print the banner and call client.push.
PushCall ==
    /\ pc = "push_call"
    /\ stdout' = Append(stdout, "===== Pushing Docker Image =====")
    /\ push_calls' = push_calls + 1
    /\ pc' = "pushing"
    /\ UNCHANGED <<opts, args, argv, disk, dockerfile, build_log, push_log,
                   build_calls, build_ended, create_requests, exc>>

\* Lines 219-221, client.push raising: nothing catches it, _train ends with it.
PushCallRaises ==
    /\ pc = "push_call"
    /\ stdout' = Append(stdout, "===== Pushing Docker Image =====")
    /\ push_calls' = push_calls + 1
    /\ pc' = "done"
    /\ exc' = Exception("APIError", "push")
    /\ UNCHANGED <<opts, args, argv, disk, dockerfile, build_log, push_log,
                   build_calls, build_ended, create_requests>>

\* Lines 221-222, one iteration of the loop over the push stream.
PushYield ==
    /\ pc = "pushing"
    /\ Len(push_log) < MaxPushEvents
    /\ \E line \in PushEvents :
        /\ push_log' = Append(push_log, line)
        /\ stdout' = Append(stdout, Repr(line))
    /\ UNCHANGED <<opts, args, argv, pc, disk, dockerfile, build_log,
                   build_calls, push_calls, build_ended, create_requests, exc>>

\* Line 221: the push stream is exhausted; _build_docker_image returns to _train.
PushStreamEnds ==
    /\ pc = "pushing"
    /\ pc' = "submit"
    /\ UNCHANGED <<opts, args, argv, disk, dockerfile, stdout, build_log, push_log,
                   build_calls, push_calls, build_ended, create_requests, exc>>

----------------------------------------------------------------------------
\* _submit

\* Line 247: all([args.volume_name, args.mount_path])
VolumeComplete(a) == Truthy(a.volume_name) /\ Truthy(a.mount_path)

\* The elif branch lost: a lone volume_name or mount_path is silently dropped.
VolumeIncomplete_Never(a) == FALSE

\* Lines 247 and 256: not all(...), and any([args.volume_name, args.mount_path])
VolumeIncomplete(a) ==
    /\ ~VolumeComplete(a)
    /\ (Truthy(a.volume_name) \/ Truthy(a.mount_path))

\* Lines 226-262: container_args, for options that pass the volume check.
ContainerArgs(a, extra) ==
    <<"-m", "elasticdl.python.master.main",
      "--job_name", a.job_name,
      "--worker_image", a.image_name,
      "--model_def", ModelDefInDocker(a.model_def),
      "--worker_resource_request", a.worker_resource_request,
      "--worker_resource_limit", a.worker_resource_request,
      "--namespace", a.namespace,
      "--tensorboard_log_dir", a.tensorboard_log_dir,
      "--image_pull_policy", a.image_pull_policy,
      "--restart_policy", a.restart_policy>>
    \o (IF VolumeComplete(a)
        THEN <<"--mount_path", a.mount_path[1], "--volume_name", a.volume_name[1]>>
        ELSE <<>>)
    \o extra

\* The conditional inverted into always taking the request.
MasterResourceLimit_AlwaysRequest(a) == Some(a.master_resource_request)

\* Lines 264-268: the value assigned to args.master_resource_limit.
MasterResourceLimit(a) ==
    IF Truthy(a.master_resource_limit)
    THEN a.master_resource_limit
    ELSE Some(a.master_resource_request)

\* Lines 270-286: the arguments of k8s.Client(...) and of create_master(...).
CreateMasterRequest(a, container_args) ==
    [client |-> [image_name |-> a.image_name,
                 namespace |-> a.namespace,
                 job_name |-> a.job_name],
     job_name |-> a.job_name,
     image_name |-> a.image_name,
     resource_requests |-> a.master_resource_request,
     resource_limits |-> a.master_resource_limit,
     pod_priority |-> a.master_pod_priority,
     image_pull_policy |-> a.image_pull_policy,
     volume_name |-> a.volume_name,
     mount_path |-> a.mount_path,
     restart_policy |-> a.restart_policy,
     args |-> container_args]

\* Lines 225-286: _submit. The volume check raises before anything is sent;
\* otherwise create_master is called, and returns or raises.
Submit ==
    /\ pc = "submit"
    /\ pc' = "done"
    /\ IF VolumeIncomplete(args)
       THEN /\ exc' = Exception("ValueError",
                        "Not both of the parameters volume_name and "
                        \o "mount_path are provided.")
            /\ UNCHANGED <<args, create_requests>>
       ELSE /\ args' = [args EXCEPT !.master_resource_limit = MasterResourceLimit(args)]
            /\ create_requests' =
                   Append(create_requests,
                          CreateMasterRequest(args', ContainerArgs(args, argv)))
            /\ \E ok \in BOOLEAN :
                   exc' = IF ok THEN None ELSE Exception("ApiException", "create_master")
    /\ UNCHANGED <<opts, argv, disk, dockerfile, stdout, build_log, push_log,
                   build_calls, push_calls, build_ended>>

----------------------------------------------------------------------------

Next ==
    \/ StageContext
    \/ RenderDockerfile
    \/ BuildCall
    \/ BuildCallRaises
    \/ BuildYield
    \/ BuildStreamEnds
    \/ PushCall
    \/ PushCallRaises
    \/ PushYield
    \/ PushStreamEnds
    \/ Submit

Spec == Init /\ [][Next]_vars

----------------------------------------------------------------------------
\* The resource-string parser of the k8s client, which client.py hands the
\* resource strings to: comma-separated key=value pairs, keys from a fixed set,
\* whitespace around the separators trimmed.

RecognizedKeys == {"cpu", "memory", "disk", "accelerator"}

\* cs split at every sep.
RECURSIVE Split(_, _)
Split(cs, sep) ==
    LET at == {i \in 1..Len(cs) : cs[i] = sep}
    IN  IF at = {} THEN <<cs>>
        ELSE LET i == CHOOSE k \in at : \A j \in at : k <= j
             IN  <<SubSeq(cs, 1, i - 1)>> \o Split(SubSeq(cs, i + 1, Len(cs)), sep)

\* cs without its leading and trailing blanks.
RECURSIVE Trim(_)
Trim(cs) ==
    IF cs = <<>> THEN cs
    ELSE IF Head(cs) = " " THEN Trim(Tail(cs))
    ELSE IF cs[Len(cs)] = " " THEN Trim(SubSeq(cs, 1, Len(cs) - 1))
    ELSE cs

\* A pair that lacks "=" or whose key is not recognised.
PairMalformed(pair) ==
    LET kv == Split(pair, "=")
    IN  Len(kv) < 2 \/ Str(Trim(kv[1])) \notin RecognizedKeys

\* The parser rejects s (InvalidResourceSpec).
ResourceSpecMalformed(s) ==
    LET pairs == Split(Chars(s), ",")
    IN  \E i \in 1..Len(pairs) : PairMalformed(pairs[i])

----------------------------------------------------------------------------
\* Vocabulary of the properties

\* The ValueError of the volume check (lines 257-260).
VolumeError ==
    Exception("ValueError",
              "Not both of the parameters volume_name and mount_path are provided.")

\* The run is over and _submit was entered: the build stream ended without an
\* error and no push call raised.
SubmitReturned ==
    /\ pc = "done"
    /\ build_ended
    /\ exc # Exception("APIError", "push")

\* The values of the first n options of an argument vector (after "-m <module>",
\* flag and value alternate), and what follows them.
OptionValues(vec, n) == [k \in 1..n |-> vec[2 + 2 * k]]
AfterOptions(vec, n) == SubSeq(vec, 3 + 2 * n, Len(vec))

\* The element that follows the first occurrence of flag in vec.
ValueOf(vec, flag) ==
    vec[1 + (CHOOSE i \in 1..Len(vec) : vec[i] = flag /\ \A j \in 1..(i - 1) : vec[j] # flag)]

Elements(vec) == {vec[i] : i \in 1..Len(vec)}

\* C1: if the build stream contains an error event, the build fails at the first
\* such event with a RuntimeError carrying the backend's message, no further
\* build event is consumed, and neither client.push nor create_master is called,
\* whether or not push_image was requested.
C1_BuildErrorAborts ==
    \A i \in 1..Len(build_log) :
        build_log[i].error # None =>
            /\ i = Len(build_log)
            /\ pc = "done"
            /\ ~build_ended
            /\ exc = Exception("RuntimeError",
                        "Docker image build failure: " \o build_log[i].error[1])
            /\ push_calls = 0
            /\ create_requests = <<>>

C1_Witness ==
    /\ opts.push_image
    /\ Len(build_log) = 3
    /\ build_log[1].stream # None
    /\ build_log[2].stream # None
    /\ build_log[3].error # None
    /\ Len(stdout) = 3
    /\ pc = "done"

\* C2: with exactly one of volume_name / mount_path given, the command fails
\* before any build attempt: client.build is never called, nor client.push nor
\* create_master.
C2_VolumeCheckBeforeBuild ==
    (Truthy(opts.volume_name) # Truthy(opts.mount_path)) =>
        /\ build_calls = 0
        /\ push_calls = 0
        /\ create_requests = <<>>

\* C3 as stated: exactly one of volume_name / mount_path present => _submit fails
\* with the volume error and calls no create_master; both present => both are in
\* the argument vector and in the request; both absent => neither is in the
\* argument vector and both are null in the request.
C3_VolumePairingNull ==
    SubmitReturned =>
        /\ (Truthy(opts.volume_name) # Truthy(opts.mount_path)) =>
               (exc = VolumeError /\ create_requests = <<>>)
        /\ (Truthy(opts.volume_name) /\ Truthy(opts.mount_path)) =>
               /\ Len(create_requests) = 1
               /\ create_requests[1].volume_name = opts.volume_name
               /\ create_requests[1].mount_path = opts.mount_path
               /\ ValueOf(create_requests[1].args, "--mount_path") = opts.mount_path[1]
               /\ ValueOf(create_requests[1].args, "--volume_name") = opts.volume_name[1]
        /\ (~Truthy(opts.volume_name) /\ ~Truthy(opts.mount_path)) =>
               /\ Len(create_requests) = 1
               /\ "--mount_path" \notin Elements(create_requests[1].args)
               /\ "--volume_name" \notin Elements(create_requests[1].args)
               /\ create_requests[1].volume_name = None
               /\ create_requests[1].mount_path = None

\* C3 amended: as C3, except that with both options absent or empty the request
\* carries the two options as they were given: null for an absent option, the
\* empty string for an empty one.
C3_VolumePairing ==
    SubmitReturned =>
        /\ (Truthy(opts.volume_name) # Truthy(opts.mount_path)) =>
               (exc = VolumeError /\ create_requests = <<>>)
        /\ (Truthy(opts.volume_name) /\ Truthy(opts.mount_path)) =>
               /\ Len(create_requests) = 1
               /\ create_requests[1].volume_name = opts.volume_name
               /\ create_requests[1].mount_path = opts.mount_path
               /\ ValueOf(create_requests[1].args, "--mount_path") = opts.mount_path[1]
               /\ ValueOf(create_requests[1].args, "--volume_name") = opts.volume_name[1]
        /\ (~Truthy(opts.volume_name) /\ ~Truthy(opts.mount_path)) =>
               /\ Len(create_requests) = 1
               /\ "--mount_path" \notin Elements(create_requests[1].args)
               /\ "--volume_name" \notin Elements(create_requests[1].args)
               /\ create_requests[1].volume_name = opts.volume_name
               /\ create_requests[1].mount_path = opts.mount_path

C3_Witness ==
    /\ SubmitReturned
    /\ opts.volume_name = Some("")
    /\ opts.mount_path = None
    /\ Len(create_requests) = 1
    /\ create_requests[1].volume_name = Some("")

\* C4 as stated: master_resource_limit omitted => the request's limit equals the
\* master resource request; given => the request carries the given limit
\* unchanged; the master resource request is never altered.
C4_MasterLimitGivenUnchanged ==
    /\ args.master_resource_request = opts.master_resource_request
    /\ \A i \in 1..Len(create_requests) :
        /\ create_requests[i].resource_requests = opts.master_resource_request
        /\ opts.master_resource_limit = None =>
               create_requests[i].resource_limits = Some(opts.master_resource_request)
        /\ opts.master_resource_limit # None =>
               create_requests[i].resource_limits = opts.master_resource_limit

\* C4 amended: master_resource_limit omitted or empty => the request's limit
\* equals the master resource request; given and not empty => the request carries
\* the given limit unchanged; the master resource request is never altered.
C4_MasterLimitDefault ==
    /\ args.master_resource_request = opts.master_resource_request
    /\ \A i \in 1..Len(create_requests) :
        /\ create_requests[i].resource_requests = opts.master_resource_request
        /\ (opts.master_resource_limit = None \/ opts.master_resource_limit = Some("")) =>
               create_requests[i].resource_limits = Some(opts.master_resource_request)
        /\ (opts.master_resource_limit # None /\ opts.master_resource_limit # Some("")) =>
               create_requests[i].resource_limits = opts.master_resource_limit

C4_Witness ==
    /\ Len(create_requests) = 1
    /\ opts.master_resource_limit = None
    /\ create_requests[1].resource_limits = Some("cpu=0.1,memory=1024Mi")
    /\ create_requests[1].resource_requests = "cpu=0.1,memory=1024Mi"

\* C5: the argument vector forwards the worker_resource_limit option as the
\* worker resource limit and the worker_resource_request option as the worker
\* resource request, also when the two differ.
C5_WorkerLimitForwarded ==
    \A i \in 1..Len(create_requests) :
        /\ ValueOf(create_requests[i].args, "--worker_resource_request")
               = opts.worker_resource_request
        /\ ValueOf(create_requests[i].args, "--worker_resource_limit")
               = opts.worker_resource_limit

\* C6: the argument vector of the request lists, in this order, job name, image
\* name, in-image model path (root + basename of model_def), worker resource
\* request, worker resource limit, namespace, tensorboard log directory,
\* image-pull-policy, restart-policy, then mount path and volume name only when
\* both are given, and last the passthrough arguments, unmodified and in order.
C6_ArgumentVectorOrder ==
    \A i \in 1..Len(create_requests) :
        LET vec == create_requests[i].args
            both == Truthy(opts.volume_name) /\ Truthy(opts.mount_path)
            n == IF both THEN 11 ELSE 9
        IN  /\ Len(vec) = 2 + 2 * n + Len(argv)
            /\ OptionValues(vec, n) =
                   <<opts.job_name, opts.image_name,
                     Str(PathJoin(Chars(MODEL_ROOT_PATH), Basename(Chars(opts.model_def)))),
                     opts.worker_resource_request, opts.worker_resource_limit,
                     opts.namespace, opts.tensorboard_log_dir,
                     opts.image_pull_policy, opts.restart_policy>>
                   \o (IF both THEN <<opts.mount_path[1], opts.volume_name[1]>> ELSE <<>>)
            /\ AfterOptions(vec, n) = argv

\* C7: once the build step has ended, on any exit path, nothing of the build
\* context exists on disk: not the staging directory, not the copied framework
\* and model trees, not the rendered Dockerfile.
C7_BuildContextRemoved ==
    (pc \in {"submit", "done"}) =>
        /\ CtxDir \notin disk
        /\ \A f \in disk : f.dir # "ctx_dir"
        /\ DockerfilePath \notin disk

C10_ResourceCheckBeforeBuild ==
    (\/ ResourceSpecMalformed(opts.master_resource_request)
     \/ ResourceSpecMalformed(opts.worker_resource_request)
     \/ ResourceSpecMalformed(opts.worker_resource_limit)
     \/ (Truthy(opts.master_resource_limit)
         /\ ResourceSpecMalformed(opts.master_resource_limit[1]))) =>
        /\ build_calls = 0
        /\ create_requests = <<>>

====
